---- MODULE Spec2Model ----
(***************************************************************************)
(* A model of the ffprobe wrapper crate (src/src/lib.rs): the two          *)
(* invocation functions ffprobe_config / ffprobe_async_config, the         *)
(* duration decoder option_string_to_duration, and the report decoding     *)
(* they feed (ratio, stream, format, chapter and top-level FfProbe).       *)
(*                                                                         *)
(* Text is modelled as a sequence of one-character strings, an f64 as a    *)
(* decimal mantissa with a power-of-ten exponent, and a Duration as the    *)
(* pair (secs, nanos) of std::time::Duration, secs being a decimal digit   *)
(* sequence because it is a u64.                                           *)
(***************************************************************************)
EXTENDS Integers, Sequences, FiniteSets, TLC

VARIABLES
    config,     \* the Config handed to both invocation functions
    path,       \* the input path argument
    sync,       \* the call of ffprobe_config: pc, cmd, proc, out, result, decoded
    async,      \* the call of ffprobe_async_config: same fields
    dinput,     \* duration decoder: the Option<String> read from the deserializer
    dresult,    \* duration decoder: what option_string_to_duration produced
    rinput,     \* ratio decoder: the string to decode
    rresult,    \* ratio decoder: what the decoder produced
    doc,        \* report decoder: the captured standard output, as a document
    dec         \* report decoder: what serde_json::from_slice::<FfProbe> produced

vars == <<config, path, sync, async, dinput, dresult, rinput, rresult, doc, dec>>

-----------------------------------------------------------------------------
(* Bounds of the model.                                                    *)

\* longest string enumerated for the duration decoder
MaxDurLen == 4
\* longest string enumerated for the ratio decoder
MaxRatioLen == 5
\* longest streams array enumerated for the report decoder
MaxStreams == 4

-----------------------------------------------------------------------------
(* Option and Result.                                                      *)

None == [some |-> FALSE, val |-> <<>>]
Some(v) == [some |-> TRUE, val |-> v]

Ok(v) == [kind |-> "Ok", val |-> v]
Err(e) == [kind |-> "Err", val |-> e]
\* a panic unwinds the calling thread: the function returns nothing
Panic(msg) == [kind |-> "Panic", val |-> msg]

NotRun == [kind |-> "NotRun", val |-> <<>>]

-----------------------------------------------------------------------------
(* Text helpers.                                                           *)

DigitChars == <<"0", "1", "2", "3", "4", "5", "6", "7", "8", "9">>
IsDigit(c) == \E i \in 1..10 : DigitChars[i] = c
DigitVal(c) == (CHOOSE i \in 1..10 : DigitChars[i] = c) - 1

\* all sequences over S of length at most n
SeqsUpTo(S, n) == UNION {[1..k -> S] : k \in 0..n}

Drop(s, n) == SubSeq(s, n + 1, Len(s))
Take(s, n) == SubSeq(s, 1, n)

RECURSIVE Zeros(_)
Zeros(n) == IF n <= 0 THEN <<>> ELSE <<0>> \o Zeros(n - 1)

\* length of the longest prefix of s made of ASCII digits
RECURSIVE DigitPrefixLen(_)
DigitPrefixLen(s) ==
    IF s = <<>> \/ ~IsDigit(s[1]) THEN 0 ELSE 1 + DigitPrefixLen(Tail(s))

\* the digit values of a sequence of digit characters
DigitVals(s) == [i \in 1..Len(s) |-> DigitVal(s[i])]

RECURSIVE StripZeros(_)
StripZeros(ds) ==
    IF ds # <<>> /\ ds[1] = 0 THEN StripZeros(Tail(ds)) ELSE ds

\* the integer a sequence of digit values denotes (small values only)
RECURSIVE DigitsToInt(_)
DigitsToInt(ds) ==
    IF ds = <<>> THEN 0 ELSE DigitsToInt(Take(ds, Len(ds) - 1)) * 10 + ds[Len(ds)]

AsciiLower(c) ==
    CASE c = "I" -> "i" [] c = "N" -> "n" [] c = "F" -> "f" [] c = "T" -> "t"
      [] c = "Y" -> "y" [] c = "A" -> "a" [] c = "E" -> "e" [] OTHER -> c

LowerAll(s) == [i \in 1..Len(s) |-> AsciiLower(s[i])]

-----------------------------------------------------------------------------
(* f64: the value s.parse::<f64>() yields, kept in decimal.                *)
(* class "finite" denotes (neg ? -1 : 1) * mant * 10^exp10.                *)

Finite(neg, mant, exp10) == [class |-> "finite", neg |-> neg, mant |-> mant, exp10 |-> exp10]
Infinity(neg) == [class |-> "inf", neg |-> neg, mant |-> <<>>, exp10 |-> 0]
NaN == [class |-> "nan", neg |-> FALSE, mant |-> <<>>, exp10 |-> 0]
PlusZero == Finite(FALSE, <<>>, 0)

IsZeroF64(v) == v.class = "finite" /\ StripZeros(v.mant) = <<>>

\* the digits of the mantissa: ni integer digits from the start of s and nf
\* fraction digits after position fs
Mantissa(s, ni, fs, nf) == DigitVals(Take(s, ni)) \o DigitVals(SubSeq(s, fs + 1, fs + nf))

\* the exponent digits x after the optional exponent sign: at least one digit
\* and nothing after them
parse_exp_digits(x, eneg, v) ==
    IF x = <<>> \/ DigitPrefixLen(x) # Len(x) THEN None
    ELSE IF eneg THEN Some([v EXCEPT !.exp10 = @ - DigitsToInt(DigitVals(x))])
    ELSE Some([v EXCEPT !.exp10 = @ + DigitsToInt(DigitVals(x))])

\* the text x after 'e' or 'E': an optional sign, then the exponent digits
parse_scientific(x, v) ==
    IF x # <<>> /\ x[1] \in {"+", "-"} THEN parse_exp_digits(Tail(x), x[1] = "-", v)
    ELSE parse_exp_digits(x, FALSE, v)

\* after the mantissa (ni integer digits, nf fraction digits ending at
\* position fs + nf): at least one digit in all, then the end of the text or
\* an exponent
parse_after_frac(s, neg, ni, nf, fs) ==
    IF ni + nf = 0 THEN None
    ELSE IF fs + nf = Len(s) THEN Some(Finite(neg, Mantissa(s, ni, fs, nf), 0 - nf))
    ELSE IF s[fs + nf + 1] \notin {"e", "E"} THEN None
    ELSE parse_scientific(Drop(s, fs + nf + 1), Finite(neg, Mantissa(s, ni, fs, nf), 0 - nf))

\* after the ni integer digits: an optional '.' and fraction digits
parse_after_int(s, neg, ni) ==
    IF ni < Len(s) /\ s[ni + 1] = "."
    THEN parse_after_frac(s, neg, ni, DigitPrefixLen(Drop(s, ni + 1)), ni + 1)
    ELSE parse_after_frac(s, neg, ni, 0, ni)

\* core::num::dec2flt::parse::parse_number on the text after the sign:
\* digits, optional '.' digits, at least one digit in all, optional exponent
\* with at least one digit, and nothing left over.
parse_number(s, neg) == parse_after_int(s, neg, DigitPrefixLen(s))

\* core::num::dec2flt::parse::parse_inf_nan: the whole text is "nan", "inf"
\* or "infinity", compared without regard to ASCII case.
parse_inf_nan(s, neg) ==
    LET l == LowerAll(s)
    IN  IF l = <<"n", "a", "n">> THEN Some(NaN)
        ELSE IF l = <<"i", "n", "f">> THEN Some(Infinity(neg))
        ELSE IF l = <<"i", "n", "f", "i", "n", "i", "t", "y">> THEN Some(Infinity(neg))
        ELSE None

InvalidFloat == Err("invalid float literal")

special_or_invalid(special) == IF special.some THEN Ok(special.val) ELSE InvalidFloat

number_or_special(number, rest, neg) ==
    IF number.some THEN Ok(number.val) ELSE special_or_invalid(parse_inf_nan(rest, neg))

\* the text after the optional sign: a number, else inf/nan, else invalid
parse_unsigned(rest, neg) ==
    IF rest = <<>> THEN InvalidFloat
    ELSE number_or_special(parse_number(rest, neg), rest, neg)

\* <f64 as FromStr>::from_str
parse_f64(s) ==
    IF s = <<>> THEN Err("cannot parse float from empty string")
    ELSE IF s[1] \in {"-", "+"} THEN parse_unsigned(Tail(s), s[1] = "-")
    ELSE parse_unsigned(s, FALSE)

\* f64::max(v, 0.0): a NaN operand is ignored, so NaN.max(0.0) is 0.0
f64_max_zero(v) ==
    IF v.class = "nan" THEN PlusZero
    ELSE IF v.neg THEN PlusZero
    ELSE v

-----------------------------------------------------------------------------
(* std::time::Duration                                                     *)

\* 2^64, one more than u64::MAX, the first number of seconds no Duration holds
TwoPow64 == <<1, 8, 4, 4, 6, 7, 4, 4, 0, 7, 3, 7, 0, 9, 5, 5, 1, 6, 1, 6>>

\* a >= b for digit sequences without leading zeros
RECURSIVE LexGe(_, _)
LexGe(a, b) ==
    IF a = <<>> THEN TRUE
    ELSE IF a[1] # b[1] THEN a[1] > b[1]
    ELSE LexGe(Tail(a), Tail(b))

DigitsGe(a, b) ==
    IF Len(a) # Len(b) THEN Len(a) > Len(b) ELSE LexGe(a, b)

\* a + 1 on a digit sequence
RECURSIVE DigitsInc(_)
DigitsInc(a) ==
    IF a = <<>> THEN <<1>>
    ELSE IF a[Len(a)] < 9 THEN Take(a, Len(a) - 1) \o <<a[Len(a)] + 1>>
    ELSE DigitsInc(Take(a, Len(a) - 1)) \o <<0>>

Duration(secs, nanos) == [secs |-> secs, nanos |-> nanos]
DurationZero == Duration(<<>>, 0)

NanosPerSec == 1000000000

TooBigOrNaN ==
    Panic("cannot convert float seconds to Duration: value is either too big or NaN")

\* a Duration holds at most u64::MAX seconds
duration_checked(secs, nanos) ==
    IF DigitsGe(secs, TwoPow64) THEN TooBigOrNaN ELSE Ok(Duration(secs, nanos))

\* the nanoseconds rounded to nearest, a full second carried into secs
duration_rounded(whole, nanos, roundUp) ==
    IF ~roundUp THEN duration_checked(whole, nanos)
    ELSE IF nanos + 1 = NanosPerSec THEN duration_checked(DigitsInc(whole), 0)
    ELSE duration_checked(whole, nanos + 1)

\* whole seconds and the digits after the decimal point
duration_split(whole, fracd) ==
    duration_rounded(whole, DigitsToInt(Take(fracd \o Zeros(9), 9)),
                     Len(fracd) > 9 /\ fracd[10] >= 5)

\* the value m * 10^exp10, m without leading zeros
from_secs_finite(m, exp10) ==
    IF m = <<>> THEN Ok(DurationZero)
    ELSE IF Len(m) + exp10 > Len(TwoPow64) THEN TooBigOrNaN
    ELSE IF exp10 >= 0 THEN duration_checked(m \o Zeros(exp10), 0)
    ELSE IF Len(m) > 0 - exp10
         THEN duration_split(Take(m, Len(m) + exp10), Drop(m, Len(m) + exp10))
    ELSE duration_split(<<>>, Zeros(0 - exp10 - Len(m)) \o m)

\* Duration::from_secs_f64: panics when the value is negative, not finite, or
\* 2^64 seconds or more; otherwise whole seconds and nanoseconds, the
\* nanoseconds rounded to nearest.
from_secs_f64(v) ==
    IF v.class # "finite" THEN TooBigOrNaN
    ELSE IF v.neg /\ ~IsZeroF64(v) THEN
        Panic("cannot convert float seconds to Duration: value is negative")
    ELSE from_secs_finite(StripZeros(v.mant), v.exp10)

-----------------------------------------------------------------------------
(* option_string_to_duration                                               *)

\* .map(Some): a panic inside the chain is not a value and passes through
duration_some(d) == IF d.kind = "Panic" THEN d ELSE Ok(Some(d.val))

\* .map(|v| v.max(0.0)).map(Duration::from_secs_f64).map(Some)
\*     .map_err(serde::de::Error::custom)
duration_of_parsed(parsed) ==
    IF parsed.kind = "Err" THEN Err(parsed.val)
    ELSE duration_some(from_secs_f64(f64_max_zero(parsed.val)))

option_string_to_duration(s) ==
    IF s.some THEN duration_of_parsed(parse_f64(s.val)) ELSE Ok(None)

-----------------------------------------------------------------------------
(* Specification of the duration decoder: the deserializer hands            *)
(* option_string_to_duration an absent/null field or a string.             *)

DurChars == {"0", "1", "2", "5", ".", "-", "e", "n"}

\* strings the tool's reports and the crate's documentation mention, and the
\* spellings of the special values f64's parser knows
DurExamples == {
    <<"1", "2", ".", "5">>,
    <<"-", "0", ".", "0", "0", "1">>,
    <<"n", "o", "t", "a", "n", "u", "m", "b", "e", "r">>,
    <<"1", "0", ".", "0">>,
    <<"i", "n", "f">>,
    <<"-", "i", "n", "f">>,
    <<"n", "a", "n">>,
    <<"N", "a", "N">>,
    <<"I", "n", "f", "i", "n", "i", "t", "y">>,
    <<"+", "1", ".", "5">>,
    <<"1", "E", "3">>,
    <<"1", "e", "-", "1", "0">>,
    <<"5", "e", "-", "1", "0">>,
    <<"1", "0", "0", "e", "1", "8">>,
    <<"2", "0", "0", "0", "0", "0", "0", "0", "0", "0", "0", "0", "0", "0", "0", "0", "0", "0", "0", "0">>
}

DurInputs == {None} \cup {Some(t) : t \in SeqsUpTo(DurChars, MaxDurLen) \cup DurExamples}

NoCommand == [program |-> "", args |-> <<>>]
SourceFormat(duration) == [duration |-> duration]
NotJson == [json |-> FALSE, order |-> <<>>, streams |-> <<>>,
            format |-> SourceFormat(None), chapters |-> <<>>]
NoOutput == [status |-> -1, stdout |-> NotJson, stderr |-> ""]

IdleCall == [pc |-> "idle", cmd |-> NoCommand, proc |-> NotRun, out |-> NoOutput,
             result |-> NotRun, decoded |-> FALSE]
IdleConfig == [ffprobe_bin |-> "ffprobe", count_frames |-> FALSE]
IdleDoc == NotJson

InitDuration ==
    /\ dinput \in DurInputs
    /\ dresult = NotRun
    /\ config = IdleConfig /\ path = "" /\ sync = IdleCall /\ async = IdleCall
    /\ rinput = <<>> /\ rresult = NotRun
    /\ doc = IdleDoc /\ dec = NotRun

decode_duration ==
    /\ dresult.kind = "NotRun"
    /\ dresult' = option_string_to_duration(dinput)
    /\ UNCHANGED <<config, path, sync, async, dinput, rinput, rresult, doc, dec>>

NextDuration == decode_duration

SpecDuration == InitDuration /\ [][NextDuration]_vars

-----------------------------------------------------------------------------
(* What the text of a duration field denotes, read as a decimal number     *)
(* independently of the decoder.                                           *)

\* [+|-] digits [. digits], at least one digit
IsPlainDecimal(t) ==
    LET body == IF t # <<>> /\ t[1] \in {"+", "-"} THEN Tail(t) ELSE t
        ni == DigitPrefixLen(body)
        afterInt == Drop(body, ni)
        nf == IF afterInt # <<>> /\ afterInt[1] = "." THEN DigitPrefixLen(Tail(afterInt)) ELSE 0
    IN  /\ ni + nf > 0
        /\ \/ afterInt = <<>>
           \/ afterInt[1] = "." /\ Len(afterInt) = nf + 1

\* a plain decimal followed by e|E [+|-] digits
IsScientific(t) ==
    \E i \in 2..(Len(t) - 1) :
        /\ t[i] \in {"e", "E"}
        /\ IsPlainDecimal(Take(t, i - 1))
        /\ LET x == Drop(t, i)
               xd == IF x[1] \in {"+", "-"} THEN Tail(x) ELSE x
           IN  xd # <<>> /\ DigitPrefixLen(xd) = Len(xd)

IsNumericText(t) == IsPlainDecimal(t) \/ IsScientific(t)

PlainIntDigits(t) ==
    LET body == IF t[1] \in {"+", "-"} THEN Tail(t) ELSE t
    IN  DigitVals(Take(body, DigitPrefixLen(body)))

PlainFracDigits(t) ==
    LET body == IF t[1] \in {"+", "-"} THEN Tail(t) ELSE t
        afterInt == Drop(body, DigitPrefixLen(body))
    IN  IF afterInt = <<>> THEN <<>> ELSE DigitVals(Tail(afterInt))

\* every digit of the mantissa is 0
IsZeroText(t) ==
    \A i \in 1..Len(t) :
        (i = 1 \/ \A j \in 1..(i - 1) : t[j] \notin {"e", "E"}) /\ IsDigit(t[i]) => t[i] = "0"

IsNegativeText(t) == t[1] = "-" /\ ~IsZeroText(t)

IsOkSome(r) == r.kind = "Ok" /\ r.val.some
IsOkNone(r) == r.kind = "Ok" /\ ~r.val.some
IsOkDuration(r, secs, nanos) ==
    IsOkSome(r) /\ r.val.val.secs = secs /\ r.val.val.nanos = nanos

DurationDecoded == dresult.kind # "NotRun"

\* C4: the duration decoder maps absent input to Ok(None); a present string
\* that parses as a non-negative decimal number of seconds to exactly that
\* duration, sub-second part kept; a present string that parses as a negative
\* number to a zero duration; and fails with a shape error for every present
\* string that is not numeric.
C4_DurationDecoderContract ==
    DurationDecoded =>
        /\ ~dinput.some => IsOkNone(dresult)
        /\ dinput.some /\ IsNumericText(dinput.val) /\ ~IsNegativeText(dinput.val) =>
               IsOkSome(dresult)
        /\ dinput.some /\ IsPlainDecimal(dinput.val) /\ ~IsNegativeText(dinput.val)
             /\ Len(PlainFracDigits(dinput.val)) <= 9 =>
               IsOkDuration(dresult, StripZeros(PlainIntDigits(dinput.val)),
                            DigitsToInt(Take(PlainFracDigits(dinput.val) \o Zeros(9), 9)))
        /\ dinput.some /\ IsNumericText(dinput.val) /\ IsNegativeText(dinput.val) =>
               IsOkDuration(dresult, <<>>, 0)
        /\ dinput.some /\ ~IsNumericText(dinput.val) => dresult.kind = "Err"

\* C5: decoding is panic-free: for every input the duration decoder returns a
\* value or a typed error and never aborts.
C5_DurationDecoderNeverPanics ==
    dresult.kind \in {"NotRun", "Ok", "Err"}

-----------------------------------------------------------------------------
(* Ratio: the rational decoder of module ratio (declared at lib.rs:51,     *)
(* re-exported at lib.rs:83).                                              *)

\* the pieces of s between occurrences of sep, as str::split yields them
RECURSIVE Split(_, _)
Split(s, sep) ==
    IF \A i \in 1..Len(s) : s[i] # sep THEN <<s>>
    ELSE LET i == CHOOSE j \in 1..Len(s) : s[j] = sep /\ \A k \in 1..(j - 1) : s[k] # sep
         IN  <<Take(s, i - 1)>> \o Split(Drop(s, i), sep)

\* the digits of an integer after its sign
parse_digits(body, neg) ==
    IF body = <<>> \/ DigitPrefixLen(body) # Len(body) THEN None
    ELSE IF neg THEN Some(0 - DigitsToInt(DigitVals(body)))
    ELSE Some(DigitsToInt(DigitVals(body)))

\* integer text: an optional sign and at least one digit, nothing else
parse_int(t) ==
    IF t # <<>> /\ t[1] \in {"+", "-"} THEN parse_digits(Tail(t), t[1] = "-")
    ELSE parse_digits(t, FALSE)

Ratio(n, d) == [numerator |-> n, denominator |-> d]

\* both halves must be integers; the fraction is kept as written
ratio_of_halves(s, n, d) ==
    IF ~n.some \/ ~d.some THEN Err(s) ELSE Ok(Ratio(n.val, d.val))

\* mutant: a zero denominator is rejected
ratio_of_parts_rejects_zero(s, parts) ==
    IF Len(parts) # 2 THEN Err(s)
    ELSE IF parts[2] = <<"0">> THEN Err(s)
    ELSE ratio_of_halves(s, parse_int(parts[1]), parse_int(parts[2]))

\* exactly two halves around one separator
ratio_of_parts(s, parts) ==
    IF Len(parts) # 2 THEN Err(s)
    ELSE ratio_of_halves(s, parse_int(parts[1]), parse_int(parts[2]))

\* split on '/', exactly two halves, both integers; a failure carries the
\* offending text
ratio_decode(s) == ratio_of_parts(s, Split(s, "/"))

RatioChars == {"0", "5", "/", "-", "a"}

RatioExamples == {
    <<"a", "b", "c">>,
    <<"5">>,
    <<"5", "/">>,
    <<"/", "5">>,
    <<"5", "/", "3", "/", "2">>,
    <<"5", "/", "0">>,
    <<"3", "0", "0", "0", "0", "/", "1", "0", "0", "1">>,
    <<"1", "/", "1", "0", "0", "0">>,
    <<"-", "5", "/", "3", "0">>,
    <<"+", "5", "/", "3">>,
    <<"5", " ", "/", " ", "3">>,
    <<"5", ".", "0", "/", "3">>,
    <<"0", "/", "0">>
}

RatioInputs == SeqsUpTo(RatioChars, MaxRatioLen) \cup RatioExamples

InitRatio ==
    /\ rinput \in RatioInputs
    /\ rresult = NotRun
    /\ config = IdleConfig /\ path = "" /\ sync = IdleCall /\ async = IdleCall
    /\ dinput = None /\ dresult = NotRun
    /\ doc = IdleDoc /\ dec = NotRun

decode_ratio ==
    /\ rresult.kind = "NotRun"
    /\ rresult' = ratio_decode(rinput)
    /\ UNCHANGED <<config, path, sync, async, dinput, dresult, rinput, doc, dec>>

NextRatio == decode_ratio

SpecRatio == InitRatio /\ [][NextRatio]_vars

(* The text "{n}/{d}" and the form "N/D", stated independently of the       *)
(* decoder.                                                                *)

RECURSIVE NatText(_)
NatText(n) ==
    IF n < 10 THEN <<DigitChars[n + 1]>> ELSE NatText(n \div 10) \o <<DigitChars[(n % 10) + 1]>>

IntText(n) == IF n < 0 THEN <<"-">> \o NatText(0 - n) ELSE NatText(n)

RatioText(n, d) == IntText(n) \o <<"/">> \o IntText(d)

IsIntText(t) ==
    LET body == IF t # <<>> /\ t[1] \in {"+", "-"} THEN Tail(t) ELSE t
    IN  body # <<>> /\ \A i \in 1..Len(body) : IsDigit(body[i])

SeparatorCount(s) == Cardinality({i \in 1..Len(s) : s[i] = "/"})

IsRatioForm(s) ==
    /\ SeparatorCount(s) = 1
    /\ LET i == CHOOSE j \in 1..Len(s) : s[j] = "/"
       IN  IsIntText(Take(s, i - 1)) /\ IsIntText(Drop(s, i))

RatioInts == -12..12

RatioDecoded == rresult.kind # "NotRun"

\* C7: the ratio decoder accepts exactly the strings "N/D" with one separator
\* and two integer halves: "{n}/{d}" decodes to numerator n and denominator d,
\* unreduced, a zero denominator kept (d = 0 included); a string with no
\* separator, an empty half or more than one separator fails with a shape
\* error.
C7_RatioDecoderExact ==
    RatioDecoded =>
        /\ (rresult.kind = "Ok") = IsRatioForm(rinput)
        /\ rresult.kind \in {"Ok", "Err"}
        /\ \A n \in RatioInts, d \in RatioInts :
               rinput = RatioText(n, d) =>
                   rresult.kind = "Ok" /\ rresult.val = Ratio(n, d)
        /\ SeparatorCount(rinput) # 1 => rresult.kind = "Err"
        /\ (\E i \in {1, Len(rinput)} : rinput # <<>> /\ rinput[i] = "/") => rresult.kind = "Err"
        /\ rresult.kind = "Err" => rresult.val = rinput

\* C7 witness: "5/0" was decoded and the zero denominator is kept
C7_Witness ==
    /\ rinput = <<"5", "/", "0">>
    /\ rresult.kind = "Ok"
    /\ rresult.val = Ratio(5, 0)

-----------------------------------------------------------------------------
(* The report document and its decoding (modules streams, format, chapter  *)
(* and ffprobe, declared at lib.rs:37-57).                                 *)
(*                                                                         *)
(* A document is the JSON text of the captured standard output: either not *)
(* JSON at all, or an object whose members appear in the order given.      *)
(* serde visits the members in that order and stops at the first failure.  *)

NoStr == [some |-> FALSE, val |-> ""]
SomeStr(x) == [some |-> TRUE, val |-> x]

StreamKindNames == {"video", "audio", "subtitle", "data", "attachment"}

SourceStream(codec_type, index, time_base) ==
    [codec_type |-> codec_type, index |-> index, time_base |-> time_base]

\* the common fields of a stream whose kind is known
stream_of_kind(rec, time_base) ==
    IF time_base.kind # "Ok" THEN Err("invalid ratio")
    ELSE Ok([kind |-> rec.codec_type.val, index |-> rec.index, time_base |-> time_base.val])

\* one stream record: the discriminant selects the variant by exact match; a
\* missing or unknown discriminant, or a malformed common field, is a failure
stream_decode(rec) ==
    IF ~rec.codec_type.some THEN Err("missing field codec_type")
    ELSE IF rec.codec_type.val \notin StreamKindNames THEN Err("unknown variant")
    ELSE stream_of_kind(rec, ratio_decode(rec.time_base))

\* an element prepended to the decoded rest, or the failure of the rest
seq_push(head, rest) == IF rest.kind # "Ok" THEN rest ELSE Ok(<<head>> \o rest.val)

\* the streams array, element by element in source order; the first element
\* that fails ends the decode
RECURSIVE streams_decode(_)
RECURSIVE streams_from(_, _)
streams_from(head, arr) ==
    IF head.kind # "Ok" THEN head ELSE seq_push(head.val, streams_decode(Tail(arr)))

streams_decode(arr) ==
    IF arr = <<>> THEN Ok(<<>>) ELSE streams_from(stream_decode(arr[1]), arr)

format_of_duration(d) ==
    IF d.kind = "Panic" THEN d
    ELSE IF d.kind = "Err" THEN Err("invalid duration")
    ELSE Ok([duration |-> d.val])

\* the format object: its duration goes through option_string_to_duration
format_decode(f) == format_of_duration(option_string_to_duration(f.duration))

chapter_of_time_base(c, time_base) ==
    IF time_base.kind # "Ok" THEN Err("invalid ratio")
    ELSE Ok([id |-> c.id, time_base |-> time_base.val])

chapter_decode(c) == chapter_of_time_base(c, ratio_decode(c.time_base))

RECURSIVE chapters_decode(_)
RECURSIVE chapters_from(_, _)
chapters_from(head, arr) ==
    IF head.kind # "Ok" THEN head ELSE seq_push(head.val, chapters_decode(Tail(arr)))

chapters_decode(arr) ==
    IF arr = <<>> THEN Ok(<<>>) ELSE chapters_from(chapter_decode(arr[1]), arr)

EmptyReport == [streams |-> <<>>, format |-> None, chapters |-> None]

\* the value of one member of the object, decoded by its key
member_decode(d, key) ==
    CASE key = "streams" -> streams_decode(d.streams)
      [] key = "format" -> format_decode(d.format)
      [] key = "chapters" -> chapters_decode(d.chapters)

\* the report with the decoded member stored in its field
report_with(report, key, value) ==
    CASE key = "streams" -> [report EXCEPT !.streams = value]
      [] key = "format" -> [report EXCEPT !.format = Some(value)]
      [] key = "chapters" -> [report EXCEPT !.chapters = Some(value)]

\* the members of the object in document order, filling the report
RECURSIVE members_decode(_, _, _)
RECURSIVE member_apply(_, _, _, _)
member_apply(d, i, report, part) ==
    IF part.kind # "Ok" THEN part
    ELSE members_decode(d, i + 1, report_with(report, d.order[i], part.val))

members_decode(d, i, report) ==
    IF i > Len(d.order) THEN Ok(report)
    ELSE member_apply(d, i, report, member_decode(d, d.order[i]))

\* serde_json::from_slice::<FfProbe>
from_slice(d) ==
    IF ~d.json THEN Err("expected value at line 1 column 1")
    ELSE members_decode(d, 1, EmptyReport)

-----------------------------------------------------------------------------
(* Specification of the report decoder: a document is decoded once.        *)

GoodTimeBase == <<"1", "/", "2", "5">>
BadTimeBase == <<"a", "b", "c">>

\* what a stream element is drawn from: its discriminant and its time base
StreamShapes == {
    <<SomeStr("video"), GoodTimeBase>>,
    <<SomeStr("audio"), GoodTimeBase>>,
    <<SomeStr("bogus"), GoodTimeBase>>,
    <<NoStr, GoodTimeBase>>,
    <<SomeStr("video"), BadTimeBase>>
}

OtherStreamShapes == {
    <<SomeStr("subtitle"), GoodTimeBase>>,
    <<SomeStr("data"), GoodTimeBase>>,
    <<SomeStr("attachment"), GoodTimeBase>>,
    <<SomeStr("Video"), GoodTimeBase>>,
    <<SomeStr("VIDEO"), GoodTimeBase>>,
    <<SomeStr(""), GoodTimeBase>>
}

\* a streams array: element i carries index i - 1
StreamsOf(shapes) ==
    [i \in 1..Len(shapes) |-> SourceStream(shapes[i][1], i - 1, shapes[i][2])]

StreamArrays ==
    {StreamsOf(sh) : sh \in SeqsUpTo(StreamShapes, MaxStreams)}
        \cup {StreamsOf(<<sh>>) : sh \in OtherStreamShapes}

Formats == {
    SourceFormat(None),
    SourceFormat(Some(<<"1", "2", ".", "5">>)),
    SourceFormat(Some(<<"i", "n", "f">>)),
    SourceFormat(Some(<<"N", "/", "A">>))
}

SourceChapter(id, time_base) == [id |-> id, time_base |-> time_base]

ChapterArrays == {
    <<SourceChapter(0, <<"1", "/", "1", "0", "0", "0">>)>>,
    <<SourceChapter(0, <<"1", "/", "1", "0", "0", "0">>), SourceChapter(1, BadTimeBase)>>
}

Keys == {"streams", "format", "chapters"}

\* the orders in which the members of an object can appear, each key once
Orders == {o \in SeqsUpTo(Keys, Cardinality(Keys)) : \A i, j \in 1..Len(o) : o[i] = o[j] => i = j}

HasKey(d, key) == d.json /\ \E i \in 1..Len(d.order) : d.order[i] = key

Object(order, streams, format, chapters) ==
    [json |-> TRUE, order |-> order, streams |-> streams, format |-> format,
     chapters |-> chapters]

InitDecode ==
    /\ \/ doc = NotJson
       \/ \E o \in Orders :
            \E st \in (IF \E i \in 1..Len(o) : o[i] = "streams" THEN StreamArrays ELSE {<<>>}),
               f \in (IF \E i \in 1..Len(o) : o[i] = "format" THEN Formats ELSE {SourceFormat(None)}),
               ch \in (IF \E i \in 1..Len(o) : o[i] = "chapters" THEN ChapterArrays ELSE {<<>>}) :
                doc = Object(o, st, f, ch)
    /\ dec = NotRun
    /\ config = IdleConfig /\ path = "" /\ sync = IdleCall /\ async = IdleCall
    /\ dinput = None /\ dresult = NotRun
    /\ rinput = <<>> /\ rresult = NotRun

decode_report ==
    /\ dec.kind = "NotRun"
    /\ dec' = from_slice(doc)
    /\ UNCHANGED <<config, path, sync, async, dinput, dresult, rinput, rresult, doc>>

NextDecode == decode_report

SpecDecode == InitDecode /\ [][NextDecode]_vars

ReportDecoded == dec.kind # "NotRun"

\* some part of the document fails to decode
StreamFails(d) ==
    HasKey(d, "streams") /\ \E i \in 1..Len(d.streams) : stream_decode(d.streams[i]).kind = "Err"
FormatFails(d) == HasKey(d, "format") /\ format_decode(d.format).kind = "Err"
ChapterFails(d) ==
    HasKey(d, "chapters") /\ \E i \in 1..Len(d.chapters) : chapter_decode(d.chapters[i]).kind = "Err"

\* the report holds one decoded stream per source element, in source order
ReportKeepsStreams(d, report) ==
    /\ Len(report.streams) = (IF HasKey(d, "streams") THEN Len(d.streams) ELSE 0)
    /\ \A i \in 1..Len(report.streams) :
           /\ report.streams[i].index = d.streams[i].index
           /\ d.streams[i].codec_type.some
           /\ report.streams[i].kind = d.streams[i].codec_type.val

\* C3: report decoding is all-or-nothing: a document with a stream element
\* (at any position), a format or a chapter that fails to decode yields an
\* error and no Report; a returned Report holds one decoded stream per source
\* element, in source order, never a shortened sequence.
C3_AllOrNothing ==
    ReportDecoded /\ doc.json =>
        /\ StreamFails(doc) \/ FormatFails(doc) \/ ChapterFails(doc) => dec.kind = "Err"
        /\ dec.kind = "Ok" => ReportKeepsStreams(doc, dec.val)

\* a stream record whose discriminant is missing or is none of the five kinds
UnknownKind(rec) == ~rec.codec_type.some \/ rec.codec_type.val \notin StreamKindNames

\* C6: stream kind dispatch is exact and closed: a record decodes to the
\* variant its codec_type names only when that is exactly one of the five
\* kinds; a record with any other or a missing codec_type makes the whole
\* decode fail with a shape error, and is never dropped or given a default kind.
C6_StreamDispatchClosed ==
    ReportDecoded /\ HasKey(doc, "streams") =>
        /\ (\E i \in 1..Len(doc.streams) : UnknownKind(doc.streams[i])) => dec.kind = "Err"
        /\ dec.kind = "Ok" =>
               /\ ReportKeepsStreams(doc, dec.val)
               /\ \A i \in 1..Len(dec.val.streams) :
                      dec.val.streams[i].kind \in StreamKindNames

-----------------------------------------------------------------------------
(* The invocation functions ffprobe_config and ffprobe_async_config.       *)
(* The crate is built with the features streams, format, chapters and      *)
(* async enabled, so every cfg-gated argument is present.                  *)

\* IntoFfprobeArg for &str and String: the text itself
into_ffprobe_arg(p) == p

CountFramesArg(c) == IF c.count_frames THEN <<"-count_frames">> ELSE <<>>

\* the Command ffprobe_config builds
ffprobe_config_command(c, p) ==
    [program |-> c.ffprobe_bin,
     args |-> <<"-v", "error", "-print_format", "json">>
                \o <<"-show_chapters">> \o <<"-show_format">> \o <<"-show_streams">>
                \o CountFramesArg(c)
                \o <<into_ffprobe_arg(p)>>]

\* the tokio Command ffprobe_async_config builds
ffprobe_async_config_command(c, p) ==
    [program |-> "ffprobe",
     args |-> <<"-v", "quiet", "-print_format", "json">>
                \o <<"-show_chapters">> \o <<"-show_format">> \o <<"-show_streams">>
                \o CountFramesArg(c)
                \o <<into_ffprobe_arg(p)>>]

\* std::process::Output
Output(status, stdout, stderr) == [status |-> status, stdout |-> stdout, stderr |-> stderr]

\* ExitStatus::success
success(status) == status = 0

FfProbeError_Io(e) == [kind |-> "Io", val |-> e]
FfProbeError_Deserialize(e) == [kind |-> "Deserialize", val |-> e]

\* Result::map_err(FfProbeError::Deserialize)
map_err_Deserialize(r) == IF r.kind = "Err" THEN FfProbeError_Deserialize(r.val) ELSE r

\* mutant: the captured standard error is not kept
FfProbeError_Status_drops_stderr(out) == [kind |-> "Status", val |-> [out EXCEPT !.stderr = ""]]

FfProbeError_Status(out) == [kind |-> "Status", val |-> out]

\* a step of a function either returns from it or goes on to the next line
Return(r) == [returns |-> TRUE, result |-> r]
GoOn == [returns |-> FALSE, result |-> NotRun]

\* cmd.output().map_err(FfProbeError::Io)?
ffprobe_config_output(o) ==
    IF o.kind = "Err" THEN Return(FfProbeError_Io(o.val)) ELSE GoOn

\* mutant: the exit status is not looked at
ffprobe_config_status_unchecked(out) == GoOn

\* if !out.status.success() { return Err(FfProbeError::Status(out)); }
ffprobe_config_status(out) ==
    IF ~success(out.status) THEN Return(FfProbeError_Status(out)) ELSE GoOn

\* serde_json::from_slice::<FfProbe>(&out.stdout).map_err(FfProbeError::Deserialize)
ffprobe_config_decode(out) == map_err_Deserialize(from_slice(out.stdout))

\* cmd.output().await.map_err(FfProbeError::Io)?
ffprobe_async_config_output(o) ==
    IF o.kind = "Err" THEN Return(FfProbeError_Io(o.val)) ELSE GoOn

\* mutant: the asynchronous strategy does not look at the exit status
ffprobe_async_config_status_unchecked(out) == GoOn

\* if !out.status.success() { return Err(FfProbeError::Status(out)); }
ffprobe_async_config_status(out) ==
    IF ~success(out.status) THEN Return(FfProbeError_Status(out)) ELSE GoOn

\* serde_json::from_slice::<FfProbe>(&out.stdout).map_err(FfProbeError::Deserialize)
ffprobe_async_config_decode(out) == map_err_Deserialize(from_slice(out.stdout))

(* The environment: what launching the external tool can produce.          *)

Bins == {"ffprobe", "/opt/ffmpeg/bin/ffprobe"}
Configs == [ffprobe_bin : Bins, count_frames : BOOLEAN]
Paths == {"video.mp4", "missing.mp4"}

IoErrors == {"NotFound", "PermissionDenied"}
ExitCodes == {0, 1}
Stderrs == {"", "No such file or directory"}

VideoStream0 == SourceStream(SomeStr("video"), 0, GoodTimeBase)

\* {"format":{"duration":"10.0"},"streams":[{"index":0,"codec_type":"video",...}]}
MinimalDoc ==
    Object(<<"format", "streams">>, <<VideoStream0>>,
           SourceFormat(Some(<<"1", "0", ".", "0">>)), <<>>)

\* {"streams":[{"index":0,"codec_type":"bogus",...}]}
BogusDoc ==
    Object(<<"streams">>, <<SourceStream(SomeStr("bogus"), 0, GoodTimeBase)>>,
           SourceFormat(None), <<>>)

\* {"streams":[...],"format":{"duration":"inf"}}
InfDoc ==
    Object(<<"streams", "format">>, <<VideoStream0>>,
           SourceFormat(Some(<<"i", "n", "f">>)), <<>>)

StdoutDocs == {NotJson, MinimalDoc, BogusDoc, InfDoc}

\* what cmd.output() can yield
LaunchErrors == {Err(e) : e \in IoErrors}
Outputs == {Ok(Output(st, so, se)) : st \in ExitCodes, so \in StdoutDocs, se \in Stderrs}

StartCall == [pc |-> "start", cmd |-> NoCommand, proc |-> NotRun, out |-> NoOutput,
              result |-> NotRun, decoded |-> FALSE]

Init ==
    /\ config \in Configs
    /\ path \in Paths
    /\ sync = StartCall
    /\ async = StartCall
    /\ dinput = None /\ dresult = NotRun
    /\ rinput = <<>> /\ rresult = NotRun
    /\ doc = IdleDoc /\ dec = NotRun

Others == <<config, path, dinput, dresult, rinput, rresult, doc, dec>>

\* ffprobe_config, lines 154-173: the command is assembled
ffprobe_config_build ==
    /\ sync.pc = "start"
    /\ sync' = [sync EXCEPT !.pc = "built", !.cmd = ffprobe_config_command(config, path)]
    /\ UNCHANGED <<async, Others>>

\* ffprobe_config, line 175: the tool is launched and waited for
ffprobe_config_launch ==
    /\ sync.pc = "built"
    /\ \/ \E o \in LaunchErrors :
            sync' = [sync EXCEPT !.pc = "done", !.proc = o,
                                 !.result = ffprobe_config_output(o).result]
       \/ \E o \in Outputs :
            LET step == ffprobe_config_output(o)
            IN  sync' = IF step.returns
                        THEN [sync EXCEPT !.pc = "done", !.proc = o, !.result = step.result]
                        ELSE [sync EXCEPT !.pc = "launched", !.proc = o, !.out = o.val]
    /\ UNCHANGED <<async, Others>>

\* ffprobe_config, lines 177-179: the exit status is checked
ffprobe_config_check ==
    /\ sync.pc = "launched"
    /\ LET step == ffprobe_config_status(sync.out)
       IN  sync' = IF step.returns
                   THEN [sync EXCEPT !.pc = "done", !.result = step.result]
                   ELSE [sync EXCEPT !.pc = "checked"]
    /\ UNCHANGED <<async, Others>>

\* ffprobe_config, line 181: the captured standard output is decoded
ffprobe_config_finish ==
    /\ sync.pc = "checked"
    /\ sync' = [sync EXCEPT !.pc = "done", !.decoded = TRUE,
                            !.result = ffprobe_config_decode(sync.out)]
    /\ UNCHANGED <<async, Others>>

\* ffprobe_async_config, lines 194-209
ffprobe_async_config_build ==
    /\ async.pc = "start"
    /\ async' = [async EXCEPT !.pc = "built",
                              !.cmd = ffprobe_async_config_command(config, path)]
    /\ UNCHANGED <<sync, Others>>

\* ffprobe_async_config, line 211
ffprobe_async_config_launch ==
    /\ async.pc = "built"
    /\ \/ \E o \in LaunchErrors :
            async' = [async EXCEPT !.pc = "done", !.proc = o,
                                   !.result = ffprobe_async_config_output(o).result]
       \/ \E o \in Outputs :
            LET step == ffprobe_async_config_output(o)
            IN  async' = IF step.returns
                         THEN [async EXCEPT !.pc = "done", !.proc = o, !.result = step.result]
                         ELSE [async EXCEPT !.pc = "launched", !.proc = o, !.out = o.val]
    /\ UNCHANGED <<sync, Others>>

\* ffprobe_async_config, lines 213-215
ffprobe_async_config_check ==
    /\ async.pc = "launched"
    /\ LET step == ffprobe_async_config_status(async.out)
       IN  async' = IF step.returns
                    THEN [async EXCEPT !.pc = "done", !.result = step.result]
                    ELSE [async EXCEPT !.pc = "checked"]
    /\ UNCHANGED <<sync, Others>>

\* ffprobe_async_config, line 217
ffprobe_async_config_finish ==
    /\ async.pc = "checked"
    /\ async' = [async EXCEPT !.pc = "done", !.decoded = TRUE,
                              !.result = ffprobe_async_config_decode(async.out)]
    /\ UNCHANGED <<sync, Others>>

Next ==
    \/ ffprobe_config_build
    \/ ffprobe_config_launch
    \/ ffprobe_config_check
    \/ ffprobe_config_finish
    \/ ffprobe_async_config_build
    \/ ffprobe_async_config_launch
    \/ ffprobe_async_config_check
    \/ ffprobe_async_config_finish

Spec == Init /\ [][Next]_vars

-----------------------------------------------------------------------------
(* Properties of the invocation functions.                                 *)

Launched(call) == call.proc.kind = "Ok"
ExitedWith(call, code) == Launched(call) /\ call.proc.val.status = code
ExitedNonZero(call) == Launched(call) /\ call.proc.val.status # 0
Done(call) == call.pc = "done"

DecodeGuarded(call) ==
    /\ call.decoded => ExitedWith(call, 0)
    /\ Done(call) /\ ExitedNonZero(call) => call.result.kind = "Status" /\ ~call.decoded

\* C1: in ffprobe_config and ffprobe_async_config the captured standard output
\* is decoded only after the process was launched and reported a successful
\* exit status; a non-success exit status returns the Status error and the
\* decode step is never reached, whatever the standard output holds.
C1_DecodeOnlyAfterSuccess == DecodeGuarded(sync) /\ DecodeGuarded(async)

\* C1 witness: the tool exited with a failure while its standard output held a
\* valid report, and the call has returned
C1_Witness ==
    /\ Done(sync) /\ ExitedNonZero(sync) /\ sync.proc.val.stdout = MinimalDoc
    /\ Done(async) /\ ExitedWith(async, 0) /\ async.decoded

FourOutcomes(call) ==
    Done(call) =>
        /\ call.result.kind \in {"Io", "Status", "Deserialize", "Ok"}
        /\ call.proc.kind = "Err" =>
               call.result.kind = "Io" /\ call.result.val = call.proc.val /\ ~call.decoded
        /\ ExitedNonZero(call) => call.result.kind = "Status" /\ ~call.decoded
        /\ ExitedWith(call, 0) => call.decoded /\ call.result.kind \in {"Deserialize", "Ok"}

\* C2: every invocation ends in exactly one of four outcomes, decided by
\* (launched?, exit success?, decode succeeded?): launch failure -> Io with the
\* OS error and no decode; non-success exit -> Status; success and failed
\* decode -> Deserialize; success and decode -> the Report.
C2_FourOutcomes == FourOutcomes(sync) /\ FourOutcomes(async)

SameOutcome(a, b) == a.kind = b.kind /\ a.val = b.val

\* C8: for every process outcome (launch error, or exit status with captured
\* stdout/stderr) ffprobe_config and ffprobe_async_config return the same
\* result: the same error kind with the same payload, or the same Report.
C8_SameResult ==
    Done(sync) /\ Done(async) /\ SameOutcome(sync.proc, async.proc) =>
        SameOutcome(sync.result, async.result)

\* C8 witness: both strategies saw the same failing run of the tool
C8_Witness ==
    /\ Done(sync) /\ Done(async)
    /\ ExitedNonZero(sync)
    /\ SameOutcome(sync.proc, async.proc)
    /\ sync.result.kind = "Status"

StatusCarriesOutput(call) ==
    call.result.kind = "Status" =>
        /\ Launched(call)
        /\ call.result.val.status = call.proc.val.status
        /\ call.result.val.stdout = call.proc.val.stdout
        /\ call.result.val.stderr = call.proc.val.stderr

\* C9: a Status error carries the exit status and the exact captured standard
\* output and standard error of that run, nothing truncated, replaced or parsed.
C9_StatusCarriesOutput == StatusCarriesOutput(sync) /\ StatusCarriesOutput(async)

\* C9 witness: the tool failed with "No such file or directory" on stderr
C9_Witness ==
    /\ sync.result.kind = "Status"
    /\ sync.proc.val.stderr = "No such file or directory"
    /\ sync.result.val.stderr = "No such file or directory"

Built(call) == call.pc \notin {"start", "idle"}

\* C10: for every Config and path ffprobe_async_config launches the same
\* command as ffprobe_config: the executable config.ffprobe_bin, the same
\* option list, "-count_frames" exactly when config.count_frames, the path last.
C10_SameCommand ==
    Built(sync) /\ Built(async) =>
        /\ async.cmd.program = config.ffprobe_bin
        /\ sync.cmd.program = config.ffprobe_bin
        /\ async.cmd.args = sync.cmd.args
        /\ (\E i \in 1..Len(async.cmd.args) : async.cmd.args[i] = "-count_frames")
               = config.count_frames
        /\ async.cmd.args[Len(async.cmd.args)] = path

====
